---- MODULE Spec2Model ----
(***************************************************************************)
(* Model of src/main.py: XMLProcessor (class model parser, containment     *)
(* renderer, metadata generator) and ConfigDeltaProcessor (generate/apply  *)
(* of a delta between two flat key-value configurations).                  *)
(*                                                                         *)
(* Python dicts are insertion ordered: a dict is modelled as a sequence of *)
(* [key, value] entries with pairwise distinct keys.  Dicts that the code  *)
(* mutates live in a heap indexed by object identity, so that aliasing     *)
(* (copy or no copy) is part of the model.                                 *)
(***************************************************************************)
EXTENDS Integers, Sequences, FiniteSets, TLC

VARIABLES
    pc,        \* position of the running method
    i,         \* index of the loop the method is in
    heap,      \* dict objects by identity: config_json, patched_config_json, result
    result,    \* the local `result` of apply: the identity it refers to
    delta,     \* the delta record: additions, deletions, updates
    raised,    \* exception that ended the method, or "none"
    given,     \* the caller's arguments as they were at the call (history)
    xml_content,   \* the parsed input document: Class and Aggregation elements
    classes,       \* XMLProcessor.classes
    root_element,  \* the element tree generate_config_xml built
    config_xml,    \* outcome of generate_config_xml
    meta_json      \* outcome of generate_meta_json

deltaVars == <<i, heap, result, delta, raised, given>>
xmlVars == <<xml_content, classes, root_element, config_xml, meta_json>>
vars == <<pc, deltaVars, xmlVars>>

----------------------------------------------------------------------------
(* Bounds of the delta engine's inputs *)

Keys == {"a", "b", "c"}
Vals == {1, 2, 3, 4}
DKeys == {"a", "b"}
DVals == {1, 2}
MaxEntries == 2
MaxDel == 2
MaxUpd == 1
MaxAdd == 1

----------------------------------------------------------------------------
(* Python dict, insertion ordered *)

Entry(k, v) == [key |-> k, value |-> v]

DictKeys(d) == {d[j].key : j \in DOMAIN d}

Has(d, k) == k \in DictKeys(d)

Get(d, k) == d[CHOOSE j \in DOMAIN d : d[j].key = k].value

\* d[k] = v : overwrite in place, or insert at the end
Put(d, k, v) ==
    IF Has(d, k)
    THEN [j \in DOMAIN d |-> IF d[j].key = k THEN Entry(k, v) ELSE d[j]]
    ELSE Append(d, Entry(k, v))

\* del d[k], for a key that is present
Del(d, k) == SelectSeq(d, LAMBDA e : e.key # k)

\* d1 == d2 on dicts: same keys, same values, order ignored
DictEq(d1, d2) ==
    /\ DictKeys(d1) = DictKeys(d2)
    /\ \A k \in DictKeys(d1) : Get(d1, k) = Get(d2, k)

SeqsUpTo(S, n) == UNION {[1..m -> S] : m \in 0..n}

IsDict(d) == \A j, k \in DOMAIN d : d[j].key = d[k].key => j = k

Dicts(K, V, n) == {d \in SeqsUpTo([key : K, value : V], n) : IsDict(d)}

EmptyDelta == [additions |-> <<>>, deletions |-> <<>>, updates |-> <<>>]

NoRef == "none"

----------------------------------------------------------------------------
(* ConfigDeltaProcessor.generate *)

config_json == heap["config_json"]
patched_config_json == heap["patched_config_json"]

IsAdditionAlways(base, k) == TRUE

\* if key not in config_json
IsAddition(base, k) == ~Has(base, k)

\* for key, value in patched_config_json.items(): if key not in config_json
GenerateAdditions ==
    /\ pc = "generate_additions"
    /\ IF i <= Len(patched_config_json)
       THEN LET e == patched_config_json[i] IN
            /\ delta' = IF IsAddition(config_json, e.key)
                        THEN [delta EXCEPT !.additions =
                                 Append(@, [key |-> e.key, value |-> e.value])]
                        ELSE delta
            /\ i' = i + 1
            /\ pc' = pc
       ELSE /\ pc' = "generate_deletions"
            /\ i' = 1
            /\ delta' = delta
    /\ UNCHANGED <<heap, result, raised, given, xmlVars>>

\* if key not in patched_config_json
IsDeletion(patched, k) == ~Has(patched, k)

\* for key in config_json.keys(): if key not in patched_config_json
GenerateDeletions ==
    /\ pc = "generate_deletions"
    /\ IF i <= Len(config_json)
       THEN LET e == config_json[i] IN
            /\ delta' = IF IsDeletion(patched_config_json, e.key)
                        THEN [delta EXCEPT !.deletions = Append(@, e.key)]
                        ELSE delta
            /\ i' = i + 1
            /\ pc' = pc
       ELSE /\ pc' = "generate_updates"
            /\ i' = 1
            /\ delta' = delta
    /\ UNCHANGED <<heap, result, raised, given, xmlVars>>

IsUpdateEqual(base, patched, k) ==
    Has(patched, k) /\ Get(base, k) = Get(patched, k)

\* key in patched_config_json and config_json[key] != patched_config_json[key]
IsUpdate(base, patched, k) ==
    Has(patched, k) /\ Get(base, k) # Get(patched, k)

\* for key in config_json: if key in patched and values differ
GenerateUpdates ==
    /\ pc = "generate_updates"
    /\ IF i <= Len(config_json)
       THEN LET e == config_json[i] IN
            /\ delta' = IF IsUpdate(config_json, patched_config_json, e.key)
                        THEN [delta EXCEPT !.updates =
                                 Append(@, [key |-> e.key,
                                            from |-> Get(config_json, e.key),
                                            to |-> Get(patched_config_json, e.key)])]
                        ELSE delta
            /\ i' = i + 1
            /\ pc' = pc
       ELSE \* return delta; run() then calls apply(config_json, delta)
            /\ pc' = "apply_copy"
            /\ i' = 1
            /\ delta' = delta
    /\ UNCHANGED <<heap, result, raised, given, xmlVars>>

----------------------------------------------------------------------------
(* ConfigDeltaProcessor.apply *)

CopyOfAlias(src) == src

\* config_json.copy(): the identity of the dict that `result` names
CopyOf(src) == "result"

\* result = config_json.copy()
ApplyCopy ==
    /\ pc = "apply_copy"
    /\ result' = CopyOf("config_json")
    /\ heap' = [heap EXCEPT ![result'] = heap["config_json"]]
    /\ given' = [given EXCEPT !.delta = delta]
    /\ pc' = "apply_deletions"
    /\ i' = 1
    /\ UNCHANGED <<delta, raised, xmlVars>>

\* if key in result
DeletionGuard(d, k) == Has(d, k)

\* for key in delta['deletions']: if key in result: del result[key]
ApplyDeletions ==
    /\ pc = "apply_deletions"
    /\ IF i <= Len(delta.deletions)
       THEN LET k == delta.deletions[i] IN
            IF DeletionGuard(heap[result], k)
            THEN IF Has(heap[result], k)
                 THEN /\ heap' = [heap EXCEPT ![result] = Del(@, k)]
                      /\ i' = i + 1
                      /\ UNCHANGED <<pc, raised>>
                 ELSE \* del of a missing key
                      /\ raised' = "KeyError"
                      /\ pc' = "raised"
                      /\ UNCHANGED <<heap, i>>
            ELSE /\ i' = i + 1
                 /\ UNCHANGED <<heap, pc, raised>>
       ELSE /\ pc' = "apply_updates"
            /\ i' = 1
            /\ UNCHANGED <<heap, raised>>
    /\ UNCHANGED <<result, delta, given, xmlVars>>

UpdateGuardAlways(d, k) == TRUE

\* if update['key'] in result
UpdateGuard(d, k) == Has(d, k)

\* for update in delta['updates']: if update['key'] in result: result[key] = update['to']
ApplyUpdates ==
    /\ pc = "apply_updates"
    /\ IF i <= Len(delta.updates)
       THEN LET u == delta.updates[i] IN
            /\ heap' = IF UpdateGuard(heap[result], u.key)
                       THEN [heap EXCEPT ![result] = Put(@, u.key, u.to)]
                       ELSE heap
            /\ i' = i + 1
            /\ pc' = pc
       ELSE /\ pc' = "apply_additions"
            /\ i' = 1
            /\ heap' = heap
    /\ UNCHANGED <<result, delta, raised, given, xmlVars>>

\* for addition in delta['additions']: result[addition['key']] = addition['value']
ApplyAdditions ==
    /\ pc = "apply_additions"
    /\ IF i <= Len(delta.additions)
       THEN LET a == delta.additions[i] IN
            /\ heap' = [heap EXCEPT ![result] = Put(@, a.key, a.value)]
            /\ i' = i + 1
            /\ pc' = pc
       ELSE \* return result
            /\ pc' = "done"
            /\ i' = i
            /\ heap' = heap
    /\ UNCHANGED <<result, delta, raised, given, xmlVars>>

----------------------------------------------------------------------------
(* Specifications of the delta engine *)

NotCalled == [status |-> "not_called", value |-> <<>>]

\* the XMLProcessor takes no part in the delta engine's runs
XmlUnused ==
    /\ xml_content = [classes |-> <<>>, aggregations |-> <<>>]
    /\ classes = <<>>
    /\ root_element = <<>>
    /\ config_xml = NotCalled
    /\ meta_json = NotCalled

\* ConfigGenerator.run: generate(config_json, patched_config_json), then
\* apply(config_json, delta)
InitRun ==
    /\ \E b \in Dicts(Keys, Vals, MaxEntries), p \in Dicts(Keys, Vals, MaxEntries) :
          /\ heap = [config_json |-> b, patched_config_json |-> p, result |-> <<>>]
          /\ given = [call |-> "run", base |-> b, patched |-> p, delta |-> EmptyDelta]
    /\ delta = EmptyDelta
    /\ result = NoRef
    /\ raised = "none"
    /\ pc = "generate_additions"
    /\ i = 1
    /\ XmlUnused

NextRun ==
    \/ GenerateAdditions
    \/ GenerateDeletions
    \/ GenerateUpdates
    \/ ApplyCopy
    \/ ApplyDeletions
    \/ ApplyUpdates
    \/ ApplyAdditions

SpecRun == InitRun /\ [][NextRun]_vars

\* apply(config_json, delta) called with any delta
Deltas ==
    [additions : SeqsUpTo([key : DKeys, value : DVals], MaxAdd),
     deletions : SeqsUpTo(DKeys, MaxDel),
     updates : SeqsUpTo([key : DKeys, from : DVals, to : DVals], MaxUpd)]

InitApply ==
    /\ \E b \in Dicts(DKeys, DVals, MaxEntries), d \in Deltas :
          /\ heap = [config_json |-> b, patched_config_json |-> <<>>, result |-> <<>>]
          /\ given = [call |-> "apply", base |-> b, patched |-> <<>>, delta |-> d]
          /\ delta = d
    /\ result = NoRef
    /\ raised = "none"
    /\ pc = "apply_copy"
    /\ i = 1
    /\ XmlUnused

NextApply ==
    \/ ApplyCopy
    \/ ApplyDeletions
    \/ ApplyUpdates
    \/ ApplyAdditions

SpecApply == InitApply /\ [][NextApply]_vars

\* run() and apply() called directly, together
InitDelta == InitRun \/ InitApply

SpecDelta == InitDelta /\ [][NextRun]_vars

----------------------------------------------------------------------------
(* Properties of the delta engine *)

Returned == heap[result]

Map(s, F(_)) == [j \in DOMAIN s |-> F(s[j])]

KeyOf(e) == e.key

\* the value of the last entry of list s that names key k
LastOf(s, k) == s[CHOOSE j \in DOMAIN s : s[j].key = k /\ \A m \in DOMAIN s : s[m].key = k => m <= j]

SeqRange(s) == {s[j] : j \in DOMAIN s}

\* C1: apply(base, generate(base, patched)) equals patched: the same key set
\* and the same value for every key, for all base and patched.
C1_RoundTrip ==
    pc = "done" => DictEq(Returned, given.patched)

C1_Witness ==
    /\ pc = "done"
    /\ given.base = <<Entry("a", 1), Entry("b", 2)>>
    /\ given.patched = <<Entry("b", 3), Entry("c", 4)>>
    /\ Returned = <<Entry("b", 3), Entry("c", 4)>>

ExpectedAdditions(b, p) ==
    SelectSeq(p, LAMBDA e : e.key \notin DictKeys(b))

ExpectedDeletions(b, p) ==
    Map(SelectSeq(b, LAMBDA e : e.key \notin DictKeys(p)), KeyOf)

ExpectedUpdates(b, p) ==
    LET both == SelectSeq(b, LAMBDA e : e.key \in DictKeys(p) /\ e.value # Get(p, e.key))
    IN [j \in DOMAIN both |->
           [key |-> both[j].key, from |-> both[j].value, to |-> Get(p, both[j].key)]]

\* C2: generate(base, patched) returns additions = the entries of patched whose
\* key is not in base, in patched's order; deletions = the keys of base not in
\* patched, in base's order; updates = {key, from, to} for the keys in both with
\* unequal values, in base's order; and generate(m, m) is the empty delta.
C2_GenerateExact ==
    pc = "apply_copy" =>
        /\ delta.additions = ExpectedAdditions(given.base, given.patched)
        /\ delta.deletions = ExpectedDeletions(given.base, given.patched)
        /\ delta.updates = ExpectedUpdates(given.base, given.patched)
        /\ (DictEq(given.base, given.patched) => delta = EmptyDelta)

C2_Witness ==
    /\ pc = "apply_copy"
    /\ given.call = "run"
    /\ delta.additions = <<[key |-> "c", value |-> 4]>>
    /\ delta.deletions = <<"a">>
    /\ delta.updates = <<[key |-> "b", from |-> 2, to |-> 3]>>

AddKeys(d) == {d.additions[j].key : j \in DOMAIN d.additions}
DelKeys(d) == SeqRange(d.deletions)
UpdKeys(d) == {d.updates[j].key : j \in DOMAIN d.updates}

\* what deletions, then updates, then additions leave for key k
Survives(b, d, k) == Has(b, k) /\ k \notin DelKeys(d)

\* C3: for every base and every delta, apply never raises and its result is that
\* of deletions first, then updates, then additions: a key in additions is
\* present with the (last) addition's value, also when it is listed in deletions;
\* a key of base that is not deleted keeps its value unless an update names it;
\* an update whose key is deleted or absent from base inserts nothing; deleting
\* an absent key changes nothing; an empty delta returns base.
C3_ApplyOrder ==
    /\ raised = "none"
    /\ pc # "raised"
    /\ pc = "done" =>
          LET d == given.delta
              b == given.base
          IN /\ \A k \in AddKeys(d) :
                    Has(Returned, k) /\ Get(Returned, k) = LastOf(d.additions, k).value
             /\ \A k \in DictKeys(Returned) \ AddKeys(d) :
                    /\ Survives(b, d, k)
                    /\ Get(Returned, k) = IF k \in UpdKeys(d)
                                          THEN LastOf(d.updates, k).to
                                          ELSE Get(b, k)
             /\ \A k \in DictKeys(b) : Survives(b, d, k) => Has(Returned, k)
             /\ \A k \in UpdKeys(d) \ AddKeys(d) : ~Survives(b, d, k) => ~Has(Returned, k)
             /\ (d = EmptyDelta => Returned = b)

C3_Witness ==
    /\ pc = "done"
    /\ given.call = "apply"
    /\ \E k \in DelKeys(given.delta) \cap AddKeys(given.delta) : Has(Returned, k)
    /\ \E k \in UpdKeys(given.delta) \cap DelKeys(given.delta) :
          Has(given.base, k) /\ ~Has(Returned, k)
    /\ \E k \in DelKeys(given.delta) : ~Has(given.base, k)

\* C8: neither generate nor apply mutates what the caller passed: config_json
\* and patched_config_json hold the entries they held at the call, and the
\* delta passed to apply keeps its three lists.
C8_NoMutation ==
    /\ heap["config_json"] = given.base
    /\ heap["patched_config_json"] = given.patched
    /\ pc \in {"apply_deletions", "apply_updates", "apply_additions", "done", "raised"}
          => delta = given.delta

C8_Witness ==
    /\ pc = "done"
    /\ delta.additions # <<>>
    /\ delta.deletions # <<>>
    /\ delta.updates # <<>>
    /\ \E k \in DelKeys(delta) : Has(given.base, k) /\ ~Has(Returned, k)
    /\ \E k \in UpdKeys(delta) : Has(given.base, k) /\ Has(Returned, k)
                                    /\ Get(Returned, k) # Get(given.base, k)
    /\ heap["config_json"] = given.base

----------------------------------------------------------------------------
(* XMLProcessor: the input document *)

Names == {"R", "A", "B"}
MaxAggs == 2
MaxAttrs == 2
MaxDepth == 4

Absent == <<>>
Present(v) == <<v>>

\* strings the code takes apart are sequences of characters
Str1 == <<"1">>
Str0to5 == <<"0", ".", ".", "5">>
StrStar == <<"*">>
Str0toStar == <<"0", ".", ".", "*">>
Str1to2to3 == <<"1", ".", ".", "2", ".", ".", "3">>

AttrX == [name |-> "x", type |-> "int"]
AttrY == [name |-> "y", type |-> "str"]

\* <Class name= isRoot= documentation=> with nested <Attribute name= type=>
ClassElements(isRoots, docs, attrLists) ==
    [name : Names, isRoot : isRoots, documentation : docs, attributes : attrLists]

\* <Aggregation source= target= sourceMultiplicity=>
AggregationElements(mults) ==
    [source : Names, target : Names, sourceMultiplicity : mults]

\* Class names are opaque to the code (compared, never inspected), so the
\* classes of a document are declared in the order R, A, B, under distinct names
DeclarationOrder == <<"R", "A", "B">>

ClassLists(E) ==
    {cs \in SeqsUpTo(E, Len(DeclarationOrder)) :
        \A j \in DOMAIN cs : cs[j].name = DeclarationOrder[j]}

\* documents that vary the declared classes, their root flags and the
\* aggregations between declared and undeclared names
StructureDocuments ==
    [classes : ClassLists(ClassElements({"true", "false"}, {Absent}, {<<AttrX>>})),
     aggregations : SeqsUpTo(AggregationElements({Str1, Str0to5}), MaxAggs)]

\* documents that vary documentation and attributes in the chain R > A > B
ContentDocuments ==
    [classes : {<<[name |-> "R", isRoot |-> "true", documentation |-> dr, attributes |-> ar],
                  [name |-> "A", isRoot |-> "false", documentation |-> da, attributes |-> aa],
                  [name |-> "B", isRoot |-> "false", documentation |-> Absent,
                   attributes |-> <<AttrX>>]>> :
                   dr \in {Absent, Present("doc")}, da \in {Absent, Present("doc")},
                   ar \in SeqsUpTo({AttrX, AttrY}, MaxAttrs),
                   aa \in SeqsUpTo({AttrX, AttrY}, MaxAttrs)},
     aggregations : {<<[source |-> "A", target |-> "R", sourceMultiplicity |-> Str1],
                       [source |-> "B", target |-> "A", sourceMultiplicity |-> Str0to5]>>}]

\* documents with one aggregation of an unusual multiplicity
MultiplicityDocuments ==
    [classes : {<<[name |-> "R", isRoot |-> r, documentation |-> Absent, attributes |-> <<>>],
                  [name |-> "A", isRoot |-> "false", documentation |-> Absent,
                   attributes |-> <<>>]>> : r \in {"true", "false"}},
     aggregations : SeqsUpTo(AggregationElements({StrStar, Str0toStar, Str1to2to3}), 1)]

Documents == StructureDocuments \cup ContentDocuments \cup MultiplicityDocuments

----------------------------------------------------------------------------
(* XMLProcessor._parse_xml_classes *)

\* elem.get('documentation', '')
GetOr(attr, default) == IF attr = Absent THEN default ELSE attr[1]

\* the dict built for one Class element
ClassInfo(elem) ==
    [isRoot |-> elem.isRoot = "true",
     documentation |-> GetOr(elem.documentation, ""),
     attributes |-> [j \in DOMAIN elem.attributes |->
                        [name |-> elem.attributes[j].name, type |-> elem.attributes[j].type]],
     children |-> <<>>]

RECURSIVE ParseClasses(_, _)
\* for elem in root.findall('Class'): classes[class_name] = {...}
ParseClasses(elems, acc) ==
    IF elems = <<>> THEN acc
    ELSE ParseClasses(Tail(elems), Put(acc, Head(elems).name, ClassInfo(Head(elems))))

AcceptedAlways(cls, agg) == TRUE

AcceptedIfBothDeclared(cls, agg) == Has(cls, agg.target) /\ Has(cls, agg.source)

\* if target in classes
Accepted(cls, agg) == Has(cls, agg.target)

\* classes[target]['children'].append({'name': source, 'multiplicity': source_mult})
AppendChild(cls, agg) ==
    Put(cls, agg.target,
        [Get(cls, agg.target) EXCEPT !.children =
            Append(@, [name |-> agg.source, multiplicity |-> agg.sourceMultiplicity])])

RECURSIVE ParseAggregations(_, _)
\* for agg in root.findall('Aggregation'): ...; the outcome is the dict or a KeyError
ParseAggregations(aggs, acc) ==
    IF aggs = <<>> THEN [status |-> "returned", value |-> acc]
    ELSE LET agg == Head(aggs) IN
         IF Accepted(acc, agg)
         THEN IF Has(acc, agg.target)
              THEN ParseAggregations(Tail(aggs), AppendChild(acc, agg))
              ELSE [status |-> "KeyError", value |-> acc]
         ELSE ParseAggregations(Tail(aggs), acc)

ParseXmlClasses(doc) ==
    ParseAggregations(doc.aggregations, ParseClasses(doc.classes, <<>>))

\* XMLProcessor.__init__: self.classes = self._parse_xml_classes()
XMLProcessorInit ==
    /\ pc = "new"
    /\ LET parsed == ParseXmlClasses(xml_content) IN
       IF parsed.status = "returned"
       THEN /\ classes' = parsed.value
            /\ pc' = "ready"
            /\ raised' = raised
       ELSE /\ classes' = classes
            /\ pc' = "raised"
            /\ raised' = parsed.status
    /\ UNCHANGED <<i, heap, result, delta, given>>
    /\ UNCHANGED <<xml_content, root_element, config_xml, meta_json>>

----------------------------------------------------------------------------
(* XMLProcessor.build_xml_structure and generate_config_xml *)

\* ET.Element(tag) with .text and child elements
Element(tag, text, children) == [tag |-> tag, text |-> text, children |-> children]

\* attr_element = ET.Element(attr['name']); attr_element.text = attr['type']
AttrElement(attr) == Element(attr.name, Present(attr.type), <<>>)

\* the first call that did not return, in call order
FirstFailure(outs) ==
    outs[CHOOSE j \in DOMAIN outs :
            outs[j].status # "returned" /\ \A k \in 1..(j - 1) : outs[k].status = "returned"]

ElementOrderChildrenFirst(attrElems, childElems) == childElems \o attrElems

\* attribute elements first, then the child class elements
ElementOrder(attrElems, childElems) == attrElems \o childElems

RECURSIVE BuildXmlStructure(_, _, _)
\* build_xml_structure(current_class) at recursion depth `depth`: the element,
\* or the exception that ends it.  A call chain deeper than MaxDepth repeats a
\* class, so it never ends but by the interpreter's RecursionError.
BuildXmlStructure(cls, current_class, depth) ==
    IF depth > MaxDepth THEN [status |-> "RecursionError", value |-> <<>>]
    ELSE IF ~Has(cls, current_class) THEN [status |-> "KeyError", value |-> <<>>]
    ELSE LET class_info == Get(cls, current_class)
             attrElems == [j \in DOMAIN class_info.attributes |->
                              AttrElement(class_info.attributes[j])]
             outs == [j \in DOMAIN class_info.children |->
                         BuildXmlStructure(cls, class_info.children[j].name, depth + 1)]
         IN IF \E j \in DOMAIN outs : outs[j].status # "returned"
            THEN [status |-> FirstFailure(outs).status, value |-> <<>>]
            ELSE [status |-> "returned",
                  value |-> <<Element(current_class, Absent,
                                      ElementOrder(attrElems,
                                          [j \in DOMAIN outs |-> outs[j].value[1]]))>>]

FindRootFirst(cls) == IF cls = <<>> THEN Absent ELSE Present(cls[1].key)

\* for class_name, class_info in self.classes.items(): if class_info['isRoot']: break
FindRoot(cls) ==
    IF \E j \in DOMAIN cls : cls[j].value.isRoot
    THEN Present(cls[CHOOSE j \in DOMAIN cls :
                        cls[j].value.isRoot /\ \A k \in 1..(j - 1) : ~cls[k].value.isRoot].key)
    ELSE Absent

Line(indent, kind, tag, text) == [indent |-> indent, kind |-> kind, tag |-> tag, text |-> text]

RECURSIVE Flatten(_)
Flatten(seqs) == IF seqs = <<>> THEN <<>> ELSE Head(seqs) \o Flatten(Tail(seqs))

RECURSIVE Serialize(_, _)
\* ET.indent(root_element, space="    "); ET.tostring(root_element): the lines of
\* the document, each with its indentation level
Serialize(elem, level) ==
    IF elem.children = <<>>
    THEN IF elem.text = Absent
         THEN <<Line(level, "empty", elem.tag, Absent)>>
         ELSE <<Line(level, "leaf", elem.tag, elem.text)>>
    ELSE <<Line(level, "open", elem.tag, Absent)>>
         \o Flatten([j \in DOMAIN elem.children |-> Serialize(elem.children[j], level + 1)])
         \o <<Line(level, "close", elem.tag, Absent)>>

GenerateConfigXml ==
    /\ pc = "ready"
    /\ config_xml = NotCalled
    /\ LET root_class == FindRoot(classes) IN
       IF root_class = Absent
       THEN /\ config_xml' = [status |-> "ValueError: no root", value |-> <<>>]
            /\ root_element' = root_element
       ELSE LET built == BuildXmlStructure(classes, root_class[1], 1) IN
            IF built.status = "returned"
            THEN /\ root_element' = built.value
                 /\ config_xml' = [status |-> "returned",
                                   value |-> Serialize(built.value[1], 0)]
            ELSE /\ root_element' = root_element
                 /\ config_xml' = [status |-> built.status, value |-> <<>>]
    /\ UNCHANGED <<pc, deltaVars, xml_content, classes, meta_json>>

----------------------------------------------------------------------------
(* XMLProcessor.generate_meta_json *)

\* '..' in source_mult
HasDots(str) == \E j \in 1..(Len(str) - 1) : str[j] = "." /\ str[j + 1] = "."

RECURSIVE SplitDots(_)
\* source_mult.split('..')
SplitDots(str) ==
    IF ~HasDots(str) THEN <<str>>
    ELSE LET j == CHOOSE j \in 1..(Len(str) - 1) :
                     /\ str[j] = "." /\ str[j + 1] = "."
                     /\ \A k \in 1..(j - 1) : ~(str[k] = "." /\ str[k + 1] = ".")
         IN <<SubSeq(str, 1, j - 1)>> \o SplitDots(SubSeq(str, j + 2, Len(str)))

\* min_s, max_s = ... : the pair, or Absent when the unpacking fails
MinMax(source_mult) ==
    IF HasDots(source_mult)
    THEN LET parts == SplitDots(source_mult) IN
         IF Len(parts) = 2
         THEN Present([max |-> parts[2], min |-> parts[1]])
         ELSE Absent
    ELSE Present([max |-> source_mult, min |-> source_mult])

RECURSIVE ClassMultiplicity(_, _)
\* for agg in root.findall('Aggregation'): class_multiplicity[source] = {...}
ClassMultiplicity(aggs, acc) ==
    IF aggs = <<>> THEN [status |-> "returned", value |-> acc]
    ELSE LET mm == MinMax(Head(aggs).sourceMultiplicity) IN
         IF mm = Absent
         THEN [status |-> "ValueError: unpack", value |-> <<>>]
         ELSE ClassMultiplicity(Tail(aggs), Put(acc, Head(aggs).source, mm[1]))

HasCardinalityAnyClass(class_multiplicity, class_name, class_info) ==
    Has(class_multiplicity, class_name)

\* if class_name in class_multiplicity and not class_info['isRoot']
HasCardinality(class_multiplicity, class_name, class_info) ==
    Has(class_multiplicity, class_name) /\ ~class_info.isRoot

ParametersAttributesOnly(class_info) ==
    [j \in DOMAIN class_info.attributes |->
        [name |-> class_info.attributes[j].name, type |-> class_info.attributes[j].type]]

\* entry['parameters']: the attributes, then the children as {'name', 'type': 'class'}
Parameters(class_info) ==
    [j \in DOMAIN class_info.attributes |->
        [name |-> class_info.attributes[j].name, type |-> class_info.attributes[j].type]]
    \o [j \in DOMAIN class_info.children |->
        [name |-> class_info.children[j].name, type |-> "class"]]

\* the entry of one class; the optional keys max and min are the field cardinality
MetaEntry(class_multiplicity, class_name, class_info) ==
    [class |-> class_name,
     documentation |-> class_info.documentation,
     isRoot |-> class_info.isRoot,
     cardinality |-> IF HasCardinality(class_multiplicity, class_name, class_info)
                     THEN Present(Get(class_multiplicity, class_name))
                     ELSE Absent,
     parameters |-> Parameters(class_info)]

RECURSIVE MetaData(_, _, _)
\* for class_name, class_info in self.classes.items(): meta_data.append(entry)
MetaData(class_multiplicity, cls, acc) ==
    IF cls = <<>> THEN acc
    ELSE MetaData(class_multiplicity, Tail(cls),
                  Append(acc, MetaEntry(class_multiplicity, Head(cls).key, Head(cls).value)))

GenerateMetaJson ==
    /\ pc = "ready"
    /\ meta_json = NotCalled
    /\ LET cm == ClassMultiplicity(xml_content.aggregations, <<>>) IN
       meta_json' = IF cm.status = "returned"
                    THEN [status |-> "returned", value |-> MetaData(cm.value, classes, <<>>)]
                    ELSE [status |-> cm.status, value |-> <<>>]
    /\ UNCHANGED <<pc, deltaVars, xml_content, classes, root_element, config_xml>>

----------------------------------------------------------------------------
(* Specification of the XMLProcessor: constructed on a document, then its two
   generators called, each once, in either order *)

InitXml ==
    /\ xml_content \in Documents
    /\ classes = <<>>
    /\ root_element = <<>>
    /\ config_xml = NotCalled
    /\ meta_json = NotCalled
    /\ pc = "new"
    /\ i = 1
    /\ heap = [config_json |-> <<>>, patched_config_json |-> <<>>, result |-> <<>>]
    /\ result = NoRef
    /\ delta = EmptyDelta
    /\ raised = "none"
    /\ given = [call |-> "xml", base |-> <<>>, patched |-> <<>>, delta |-> EmptyDelta]

NextXml ==
    \/ XMLProcessorInit
    \/ GenerateConfigXml
    \/ GenerateMetaJson

SpecXml == InitXml /\ [][NextXml]_vars

----------------------------------------------------------------------------
(* Properties of the XMLProcessor, stated on the input document *)

doc == xml_content

Declared == {doc.classes[j].name : j \in DOMAIN doc.classes}

ClassElem(name) == doc.classes[CHOOSE j \in DOMAIN doc.classes : doc.classes[j].name = name]

Roots == {c \in Declared : ClassElem(c).isRoot = "true"}

\* the aggregations whose target is class c, in document order
AggsInto(c) == SelectSeq(doc.aggregations, LAMBDA a : a.target = c)

\* the classes that class c directly contains
Contained(c) == IF c \in Declared THEN {AggsInto(c)[j].source : j \in DOMAIN AggsInto(c)} ELSE {}

RECURSIVE Closure(_, _)
Closure(S, n) ==
    IF n = 0 THEN S ELSE Closure(S \cup UNION {Contained(c) : c \in S}, n - 1)

\* the names reached from class c through child references, c included
Reach(c) == Closure({c}, Cardinality(Names))

\* the names reached from class c through at least one child reference
ReachBelow(c) == Closure(Contained(c), Cardinality(Names))

\* no class reached from c contains itself, directly or not
AcyclicFrom(c) == \A d \in Reach(c) : d \notin ReachBelow(d)

\* every child reference reached from c names a declared class
DeclaredFrom(c) == Reach(c) \subseteq Declared

TheRoot == CHOOSE c \in Roots : TRUE

\* the first Class element of the document flagged as root
FirstRoot ==
    doc.classes[CHOOSE j \in DOMAIN doc.classes :
        /\ doc.classes[j].isRoot = "true"
        /\ \A k \in 1..(j - 1) : doc.classes[k].isRoot # "true"].name

RECURSIVE Subtrees(_)
\* the element and all the elements below it
Subtrees(elem) == {elem} \cup UNION {Subtrees(elem.children[j]) : j \in DOMAIN elem.children}

RECURSIVE Sum(_)
Sum(s) == IF s = <<>> THEN 0 ELSE Head(s) + Sum(Tail(s))

RECURSIVE CountBelow(_)
\* the number of elements below element e
CountBelow(elem) ==
    Sum([j \in DOMAIN elem.children |-> 1 + CountBelow(elem.children[j])])

RECURSIVE Contents(_)
\* attributes plus nested children reached from class c, in an acyclic document
Contents(c) ==
    Len(ClassElem(c).attributes)
    + Sum([j \in DOMAIN AggsInto(c) |-> 1 + Contents(AggsInto(c)[j].source)])

IsClassElement(e) == e.text = Absent

\* C4 as claimed: with no root class, both generators fail and return nothing.
C4_BothFail ==
    Roots = {} =>
        /\ config_xml.status # "returned"
        /\ meta_json.status # "returned"

\* C4, amended: with no root class, generate_config_xml fails with the no-root
\* error and returns nothing; generate_meta_json never fails with the no-root
\* error, and when it returns, it returns one entry per class, each with isRoot
\* false.
C4_OnlyRenderFails ==
    Roots = {} =>
        /\ config_xml.status \in {"not_called", "ValueError: no root"}
        /\ config_xml.value = <<>>
        /\ root_element = <<>>
        /\ meta_json.status # "ValueError: no root"
        /\ meta_json.status = "returned" =>
              /\ Len(meta_json.value) = Len(doc.classes)
              /\ \A j \in DOMAIN meta_json.value : ~meta_json.value[j].isRoot

C4_Witness ==
    /\ Roots = {}
    /\ Len(doc.classes) = 2
    /\ config_xml.status = "ValueError: no root"
    /\ meta_json.status = "returned"
    /\ Len(meta_json.value) = 2

\* the last aggregation that names class c as source
LastAggFrom(c) ==
    doc.aggregations[CHOOSE j \in DOMAIN doc.aggregations :
        /\ doc.aggregations[j].source = c
        /\ \A k \in DOMAIN doc.aggregations : doc.aggregations[k].source = c => k <= j]

IsSource(c) == \E j \in DOMAIN doc.aggregations : doc.aggregations[j].source = c

Dots == <<".", ".">>

\* C5: a metadata entry carries min/max exactly when its class is not a root and
\* some aggregation names the class as source; then, for a multiplicity
\* MIN..MAX, min = MIN and max = MAX, and for a single token N, min = max = N
\* (the multiplicity is that of the last such aggregation).  Entries of root
\* classes and of classes that no aggregation names as source carry neither.
C5_Cardinality ==
    meta_json.status = "returned" =>
        \A j \in DOMAIN meta_json.value :
            LET entry == meta_json.value[j]
                c == entry.class
            IN /\ (entry.cardinality # Absent) <=> (c \notin Roots /\ IsSource(c))
               /\ entry.isRoot => entry.cardinality = Absent
               /\ entry.cardinality # Absent =>
                     LET mult == LastAggFrom(c).sourceMultiplicity
                         card == entry.cardinality[1]
                     IN IF HasDots(mult)
                        THEN /\ card.min \o Dots \o card.max = mult
                             /\ ~HasDots(card.min)
                        ELSE card.min = mult /\ card.max = mult

C5_Witness ==
    /\ meta_json.status = "returned"
    /\ \E j \in DOMAIN meta_json.value :
          /\ meta_json.value[j].cardinality = Present([max |-> <<"5">>, min |-> <<"0">>])
    /\ \E j \in DOMAIN meta_json.value :
          /\ meta_json.value[j].isRoot
          /\ IsSource(meta_json.value[j].class)
          /\ meta_json.value[j].cardinality = Absent

\* C6: for a document with exactly one root class in which every child reference
\* reached from the root names a declared class and no class contains itself,
\* generate_config_xml returns one tree rooted at the root class; every class
\* element has as children one leaf per attribute of its class (tag = name,
\* text = type, declaration order) followed by one class element per child
\* reference (aggregation order); the number of elements below the root is the
\* number of attributes plus nested children reached from the root; no class
\* outside the root's reach appears; the document has one line per element
\* besides the closing lines.
C6_Tree ==
    (/\ config_xml.status # "not_called"
     /\ Cardinality(Roots) = 1
     /\ DeclaredFrom(TheRoot)
     /\ AcyclicFrom(TheRoot)) =>
        /\ config_xml.status = "returned"
        /\ Len(root_element) = 1
        /\ LET tree == root_element[1] IN
           /\ tree.tag = TheRoot
           /\ IsClassElement(tree)
           /\ \A e \in Subtrees(tree) :
                 IsClassElement(e) =>
                    /\ e.tag \in Declared
                    /\ LET attrs == ClassElem(e.tag).attributes
                           aggs == AggsInto(e.tag)
                       IN /\ Len(e.children) = Len(attrs) + Len(aggs)
                          /\ \A j \in DOMAIN attrs :
                                e.children[j] = Element(attrs[j].name, Present(attrs[j].type), <<>>)
                          /\ \A j \in DOMAIN aggs :
                                /\ e.children[Len(attrs) + j].tag = aggs[j].source
                                /\ IsClassElement(e.children[Len(attrs) + j])
           /\ CountBelow(tree) = Contents(TheRoot)
           /\ \A c \in Declared \ Reach(TheRoot) : \A e \in Subtrees(tree) : e.tag # c
           /\ Len(SelectSeq(config_xml.value, LAMBDA l : l.kind # "close")) = 1 + CountBelow(tree)
           /\ config_xml.value[1].tag = TheRoot /\ config_xml.value[1].indent = 0

C6_Witness ==
    /\ config_xml.status = "returned"
    /\ Cardinality(Roots) = 1
    /\ Declared \ Reach(TheRoot) # {}
    /\ Len(root_element[1].children) = 2
    /\ ~IsClassElement(root_element[1].children[1])
    /\ IsClassElement(root_element[1].children[2])
    /\ root_element[1].children[2].children # <<>>

\* C7: generate_meta_json returns one entry per Class element of the document, in
\* document order, root and unreferenced classes included; an entry's
\* parameters are the class's attributes as {name, type} in declaration order
\* followed by its children as {name: child, type: "class"} in aggregation order.
C7_Entries ==
    meta_json.status = "returned" =>
        /\ Len(meta_json.value) = Len(doc.classes)
        /\ \A j \in DOMAIN meta_json.value :
              LET entry == meta_json.value[j]
                  elem == doc.classes[j]
                  aggs == AggsInto(elem.name)
              IN /\ entry.class = elem.name
                 /\ entry.isRoot = (elem.isRoot = "true")
                 /\ entry.documentation = (IF elem.documentation = Absent THEN ""
                                           ELSE elem.documentation[1])
                 /\ Len(entry.parameters) = Len(elem.attributes) + Len(aggs)
                 /\ \A k \in DOMAIN elem.attributes :
                       entry.parameters[k] = [name |-> elem.attributes[k].name,
                                              type |-> elem.attributes[k].type]
                 /\ \A k \in DOMAIN aggs :
                       entry.parameters[Len(elem.attributes) + k] =
                           [name |-> aggs[k].source, type |-> "class"]

C7_Witness ==
    /\ meta_json.status = "returned"
    /\ Len(meta_json.value) = 3
    /\ Cardinality(Roots) = 1
    /\ meta_json.value[2].isRoot
    /\ Declared \ Reach(TheRoot) # {}
    /\ \E j \in DOMAIN meta_json.value :
          /\ Len(meta_json.value[j].parameters) = 3
          /\ meta_json.value[j].parameters[1].type = "int"
          /\ meta_json.value[j].parameters[3].type = "class"

WithoutUnknownTargets ==
    [doc EXCEPT !.aggregations = SelectSeq(@, LAMBDA a : a.target \in Declared)]

\* C9: the constructor never fails on an aggregation; each aggregation whose
\* target is a declared class appends {source, multiplicity} to that class's
\* children, in document order; an aggregation whose target is not declared adds
\* no child and no class, and the parsed classes are those of the document
\* without it.
C9_Aggregations ==
    /\ pc # "raised"
    /\ pc = "ready" =>
          /\ DictKeys(classes) = Declared
          /\ \A j \in DOMAIN classes :
                LET aggs == AggsInto(classes[j].key) IN
                classes[j].value.children =
                    [k \in DOMAIN aggs |-> [name |-> aggs[k].source,
                                            multiplicity |-> aggs[k].sourceMultiplicity]]
          /\ classes = ParseXmlClasses(WithoutUnknownTargets).value

C9_Witness ==
    /\ pc = "ready"
    /\ Len(doc.aggregations) = 2
    /\ doc.aggregations[1].target \notin Declared
    /\ doc.aggregations[2].target \in Declared
    /\ \E j \in DOMAIN classes : Len(classes[j].value.children) = 1

\* C10: for a document with a root whose containment relation below the root is
\* acyclic, generate_config_xml ends without exhausting the recursion; it returns
\* a tree exactly when every child reference reached from the root names a
\* declared class, and fails with a KeyError when one does not (the constructor
\* having accepted the aggregation whose source is undeclared).
C10_RenderOutcome ==
    (/\ config_xml.status # "not_called"
     /\ Roots # {}
     /\ AcyclicFrom(FirstRoot)) =>
        LET root == FirstRoot IN
        /\ config_xml.status \in {"returned", "KeyError"}
        /\ config_xml.status = "returned" <=> DeclaredFrom(root)
        /\ config_xml.status = "KeyError" => config_xml.value = <<>> /\ root_element = <<>>
        /\ \A j \in DOMAIN doc.aggregations :
              doc.aggregations[j].target \in Declared =>
                  \E k \in DOMAIN classes :
                      /\ classes[k].key = doc.aggregations[j].target
                      /\ \E m \in DOMAIN classes[k].value.children :
                            classes[k].value.children[m].name = doc.aggregations[j].source

C10_Witness ==
    /\ config_xml.status = "KeyError"
    /\ Roots # {}
    /\ AcyclicFrom(FirstRoot)
    /\ Len(doc.aggregations) = 2
    /\ \E c \in Reach(FirstRoot) : c \notin Declared

====
